---------------------------- MODULE Spec2Model ----------------------------
(***************************************************************************)
(* Model of the blog CRUD gateway of server/main.go.                       *)
(*                                                                         *)
(* The state is the "blog" collection of the document store, the counter   *)
(* of the driver's ObjectID generator, and one record per gRPC call that   *)
(* the framework runs concurrently.  A handler touches the shared state in *)
(* exactly one place, its store call, so a call is modelled in two steps:  *)
(* XxxBlogCall (the code up to the store call) and XxxBlogStore (the store *)
(* call, atomic in the store, and the code that builds the answer).        *)
(* Sending the answer (Return) touches nothing but the call itself, so it  *)
(* is taken before any other step: in a state with a done call the         *)
(* collection is as that call's store operation left it.                   *)
(* Spec starts in the serving state, the state main is written to reach:   *)
(* db is the connected client and blogdb is bound to the collection.       *)
(* SpecStartup is main from its first line up to Serve, with clients that  *)
(* try to call meanwhile; SpecShutdown is Spec with main's shutdown        *)
(* sequence.                                                               *)
(*                                                                         *)
(* Strings that the code converts (identifiers) are sequences of           *)
(* characters; strings it only copies (author id, title, content) are      *)
(* opaque values.  A store call either is executed by the store or fails   *)
(* with a driver error; a failed call has no effect on the collection.     *)
(***************************************************************************)
EXTENDS Naturals, Sequences, FiniteSets, TLC

(* ------------------------------ bounds -------------------------------- *)
\* number of calls the framework runs concurrently
NumCalls == 2
\* number of InsertOne calls the store accepts in a run
MaxCreates == 2

(* ------------------------- ObjectID and hex --------------------------- *)
\* primitive.ObjectID is [12]byte
ObjectIDLen == 12

LowerHex == <<"0","1","2","3","4","5","6","7","8","9","a","b","c","d","e","f">>
UpperHex == <<"0","1","2","3","4","5","6","7","8","9","A","B","C","D","E","F">>

\* encoding/hex fromHexChar: the value of a hex digit of either case, 16 if
\* the character is no hex digit
fromHexChar(ch) ==
    IF \E i \in 1..16 : LowerHex[i] = ch
    THEN (CHOOSE i \in 1..16 : LowerHex[i] = ch) - 1
    ELSE IF \E i \in 1..16 : UpperHex[i] = ch
         THEN (CHOOSE i \in 1..16 : UpperHex[i] = ch) - 1
         ELSE 16

NilObjectID == [i \in 1..ObjectIDLen |-> 0]

\* ObjectID.Hex(): two lower-case digits per byte
Hex(oid) ==
    [i \in 1..(2 * Len(oid)) |->
        LET b == oid[(i + 1) \div 2]
        IN  IF i % 2 = 1 THEN LowerHex[(b \div 16) + 1]
                         ELSE LowerHex[(b % 16) + 1]]

\* a bug: only the length of the string is checked
ObjectIDFromHexLengthOnly(s) ==
    IF Len(s) # 2 * ObjectIDLen
    THEN [oid |-> NilObjectID, err |-> TRUE]
    ELSE [oid |-> [i \in 1..ObjectIDLen |->
                      (16 * fromHexChar(s[2 * i - 1]) + fromHexChar(s[2 * i])) % 256],
          err |-> FALSE]

\* primitive.ObjectIDFromHex: (oid, err); NilObjectID with the error
ObjectIDFromHex(s) ==
    IF Len(s) # 2 * ObjectIDLen \/ \E i \in 1..Len(s) : fromHexChar(s[i]) = 16
    THEN [oid |-> NilObjectID, err |-> TRUE]
    ELSE [oid |-> [i \in 1..ObjectIDLen |->
                      16 * fromHexChar(s[2 * i - 1]) + fromHexChar(s[2 * i])],
          err |-> FALSE]

\* a bug: the generator's first identifier is the zero ObjectID
NewObjectIDFromZero(n) ==
    [i \in 1..ObjectIDLen |-> IF i < ObjectIDLen THEN 0 ELSE n % 256]

\* primitive.NewObjectID as InsertOne calls it for a document without _id:
\* timestamp and process bytes, then the generator's counter
NewObjectID(n) ==
    [i \in 1..ObjectIDLen |-> IF i < ObjectIDLen THEN 171 ELSE (n + 1) % 256]

(* ------------------------------ inputs -------------------------------- *)
\* *blogpb.Blog; a nil pointer reads as the zero value through its getters
Blog(id, p) ==
    [isNil |-> FALSE, id |-> id, author_id |-> p.author_id,
     title |-> p.title, content |-> p.content]

NilBlog ==
    [isNil |-> TRUE, id |-> <<>>, author_id |-> "", title |-> "", content |-> ""]

PayloadOf(b) ==
    [author_id |-> b.author_id, title |-> b.title, content |-> b.content]

\* upper-case spelling of an identifier string
ToUpper(s) ==
    [i \in 1..Len(s) |->
        IF fromHexChar(s[i]) < 16 THEN UpperHex[fromHexChar(s[i]) + 1] ELSE s[i]]

\* identifiers a client sends: the first one the store assigns, in the
\* store's spelling and in upper case, and two strings that are no ObjectID
FirstId == Hex(NewObjectID(0))

NotHexId == [i \in 1..(2 * ObjectIDLen) |-> "z"]

ReadIds == { FirstId, ToUpper(FirstId), <<>>, NotHexId }

DeleteIds == { FirstId, <<>>, NotHexId }

HelloPost == [author_id |-> "u1", title |-> "Hello", content |-> "World"]
HiPost    == [author_id |-> "u1", title |-> "Hi",    content |-> "World"]
EmptyPost == [author_id |-> "",   title |-> "",      content |-> ""]

CreateBlogs == { Blog(<<>>, HelloPost), Blog(FirstId, EmptyPost), NilBlog }

UpdateBlogs ==
    { Blog(FirstId, HiPost), Blog(FirstId, EmptyPost),
      Blog(ToUpper(FirstId), HiPost), Blog(NotHexId, HiPost), NilBlog }

(* ------------------------------- state -------------------------------- *)
VARIABLES
    collection,   \* blogdb: the documents of the "blog" collection
    counter,      \* ObjectIDs the driver's generator has produced
    calls,        \* the gRPC calls, one record per concurrent call
    crashed,      \* a handler panicked: the process is gone
    createdLog,   \* history: the ids successful CreateBlog calls returned
    lastWrite,    \* history: per ObjectID, the last write the store applied
    deleted,      \* history: ObjectIDs of documents DeleteOne removed
    main          \* func main: where it is, its handles, the database startup

vars == <<collection, counter, calls, crashed, createdLog, lastWrite, deleted, main>>

Calls == 1..NumCalls

\* BlogItem as stored: _id and the three bson fields
BlogItem(oid, p) ==
    [_id |-> oid, author_id |-> p.author_id, title |-> p.title, content |-> p.content]

NoPayload == [author_id |-> "", title |-> "", content |-> ""]

\* history of a call: the collection and the history of the call's ObjectID
\* when its store call ran
NoPre == [coll |-> {}, by |-> "none", p |-> NoPayload, deleted |-> FALSE]

NoRes == [code |-> "none", blog |-> NilBlog, success |-> FALSE]

IdleCall ==
    [pc |-> "idle", op |-> "none", id |-> <<>>, blog |-> NilBlog,
     oid |-> NilObjectID, perr |-> FALSE, afterCreate |-> FALSE,
     storeOps |-> 0, serr |-> FALSE, n |-> 0, pre |-> NoPre, res |-> NoRes]

\* status.Errorf(code, ...): no response message
StatusErr(code) == [code |-> code, blog |-> NilBlog, success |-> FALSE]

Ids(coll) == { d._id : d \in coll }

Matching(coll, oid) == { d \in coll : d._id = oid }

SeqRange(s) == { s[i] : i \in 1..Len(s) }

PreOf(oid) ==
    [coll    |-> collection,
     by      |-> IF oid \in DOMAIN lastWrite THEN lastWrite[oid].by ELSE "none",
     p       |-> IF oid \in DOMAIN lastWrite THEN lastWrite[oid].p ELSE NoPayload,
     deleted |-> oid \in deleted]

(* --------------------------- store operations ------------------------- *)
\* a bug: the new identifier is derived from the size of the collection
InsertOneCountId(coll, n, p) ==
    LET oid == NewObjectID(Cardinality(coll))
    IN  IF oid \in Ids(coll)
        THEN [coll |-> coll, oid |-> oid, err |-> TRUE]
        ELSE [coll |-> coll \cup {BlogItem(oid, p)}, oid |-> oid, err |-> FALSE]

\* Collection.InsertOne: the driver gives a document without _id a new
\* ObjectID; the unique index on _id refuses a duplicate key
InsertOne(coll, n, p) ==
    LET oid == NewObjectID(n)
    IN  IF oid \in Ids(coll)
        THEN [coll |-> coll, oid |-> oid, err |-> TRUE]
        ELSE [coll |-> coll \cup {BlogItem(oid, p)}, oid |-> oid, err |-> FALSE]

\* a bug: the filter is empty, so the lookup returns any document
FindOneAny(coll, oid) ==
    IF coll = {}
    THEN [err |-> TRUE, doc |-> BlogItem(NilObjectID, NoPayload)]
    ELSE [err |-> FALSE, doc |-> CHOOSE d \in coll : TRUE]

\* Collection.FindOne(filter {_id: oid}) and SingleResult.Decode
FindOne(coll, oid) ==
    IF Matching(coll, oid) = {}
    THEN [err |-> TRUE, doc |-> BlogItem(NilObjectID, NoPayload)]
    ELSE [err |-> FALSE, doc |-> CHOOSE d \in coll : d._id = oid]

\* a bug: the update is an upsert
FindOneAndUpdateUpsert(coll, oid, update) ==
    IF Matching(coll, oid) = {}
    THEN [coll |-> coll \cup {BlogItem(oid, update)}, err |-> FALSE,
          doc |-> BlogItem(oid, update)]
    ELSE LET old == CHOOSE d \in coll : d._id = oid
             new == [old EXCEPT !.author_id = update.author_id,
                                !.title = update.title,
                                !.content = update.content]
         IN  [coll |-> (coll \ {old}) \cup {new}, err |-> FALSE, doc |-> new]

\* a bug: the document as it was before the update is returned
FindOneAndUpdateBefore(coll, oid, update) ==
    IF Matching(coll, oid) = {}
    THEN [coll |-> coll, err |-> TRUE, doc |-> BlogItem(NilObjectID, NoPayload)]
    ELSE LET old == CHOOSE d \in coll : d._id = oid
             new == [old EXCEPT !.author_id = update.author_id,
                                !.title = update.title,
                                !.content = update.content]
         IN  [coll |-> (coll \ {old}) \cup {new}, err |-> FALSE, doc |-> old]

\* a bug: the $set is applied to every document of the collection
FindOneAndUpdateEveryDocument(coll, oid, update) ==
    IF Matching(coll, oid) = {}
    THEN [coll |-> coll, err |-> TRUE, doc |-> BlogItem(NilObjectID, NoPayload)]
    ELSE [coll |-> { BlogItem(d._id, update) : d \in coll }, err |-> FALSE,
          doc |-> BlogItem(oid, update)]

\* Collection.FindOneAndUpdate(filter {_id: oid}, {$set: update}) with
\* ReturnDocument(After) and no upsert
FindOneAndUpdate(coll, oid, update) ==
    IF Matching(coll, oid) = {}
    THEN [coll |-> coll, err |-> TRUE, doc |-> BlogItem(NilObjectID, NoPayload)]
    ELSE LET old == CHOOSE d \in coll : d._id = oid
             new == [old EXCEPT !.author_id = update.author_id,
                                !.title = update.title,
                                !.content = update.content]
         IN  [coll |-> (coll \ {old}) \cup {new}, err |-> FALSE, doc |-> new]

\* a bug: the filter is empty, so the first document is deleted
DeleteOneNoFilter(coll, oid) ==
    IF coll = {}
    THEN [coll |-> coll, n |-> 0]
    ELSE [coll |-> coll \ {CHOOSE d \in coll : TRUE}, n |-> 1]

\* a bug: the delete reports a document but removes none
DeleteOneKeeps(coll, oid) ==
    [coll |-> coll, n |-> IF Matching(coll, oid) = {} THEN 0 ELSE 1]

\* Collection.DeleteOne(filter {_id: oid}): DeleteResult.DeletedCount
DeleteOne(coll, oid) ==
    IF Matching(coll, oid) = {}
    THEN [coll |-> coll, n |-> 0]
    ELSE [coll |-> coll \ {CHOOSE d \in coll : d._id = oid}, n |-> 1]

(* ------------------------------ handlers ------------------------------ *)
\* a bug: Title and Content are filled from each other's getter
CreateDataSwapped(blog) ==
    [author_id |-> blog.author_id, title |-> blog.content, content |-> blog.title]

\* a bug: an empty title is replaced by a default
CreateDataDefaultTitle(blog) ==
    [author_id |-> blog.author_id,
     title |-> IF blog.title = "" THEN "Untitled" ELSE blog.title,
     content |-> blog.content]

\* CreateBlog: data := BlogItem{AuthorID, Title, Content} from the request
CreateData(blog) ==
    [author_id |-> blog.author_id, title |-> blog.title, content |-> blog.content]

\* ReadBlog: the response from the ObjectID and the decoded BlogItem
ReadBlogRes(oid, data) ==
    [code |-> "OK",
     blog |-> [isNil |-> FALSE, id |-> Hex(oid), author_id |-> data.author_id,
               title |-> data.title, content |-> data.content],
     success |-> FALSE]

\* a bug: the update document's title is filled from the content getter
UpdateDataTitleFromContent(blog) ==
    [author_id |-> blog.author_id, title |-> blog.content, content |-> blog.content]

\* UpdateBlog: update := bson.M{author_id, title, content} from the request
UpdateData(blog) ==
    [author_id |-> blog.author_id, title |-> blog.title, content |-> blog.content]

\* UpdateBlog: the response from the decoded BlogItem
UpdateBlogRes(data) ==
    [code |-> "OK",
     blog |-> [isNil |-> FALSE, id |-> Hex(data._id), author_id |-> data.author_id,
               title |-> data.title, content |-> data.content],
     success |-> FALSE]

\* main at its first line: the package variables db and blogdb are nil
StartMain ==
    [pc |-> "start", client |-> "nil", db |-> "nil", blogdb |-> "nil",
     startup |-> "none"]

\* main blocked on the signal channel while the server serves
ServingMain ==
    [pc |-> "serving", client |-> "connected", db |-> "client", blogdb |-> "bound",
     startup |-> "ok"]

Init ==
    /\ collection = {}
    /\ counter = 0
    /\ calls = [c \in Calls |-> IdleCall]
    /\ crashed = FALSE
    /\ createdLog = <<>>
    /\ lastWrite = <<>>
    /\ deleted = {}
    /\ main = ServingMain

\* the server accepts calls: Serve runs and Stop has not been called
Accepting == main.pc = "serving"

\* the context gRPC gave the call is not cancelled (Stop cancels it)
CtxLive == main.pc = "serving"

\* the client behind blogdb is connected (mongoCtx is never cancelled)
ClientUp == main.pc \in {"serving", "stopped"}

\* main has not returned: the handlers' goroutines still run
ProcessUp == main.pc \in {"serving", "stopped", "disconnected"}

\* the process is up and no answer is waiting to be sent
Running == ~crashed /\ \A c \in Calls : calls[c].pc # "done"

InFlightCreates == Cardinality({ c \in Calls : calls[c].pc = "called" /\ calls[c].op = "Create" })

\* CreateBlog up to the InsertOne call
CreateBlogCall(c, blog) ==
    /\ Running
    /\ calls[c].pc = "idle"
    /\ counter + InFlightCreates < MaxCreates
    /\ calls' = [calls EXCEPT ![c] =
                    [IdleCall EXCEPT !.pc = "called", !.op = "Create", !.blog = blog]]
    /\ UNCHANGED <<collection, counter, crashed, createdLog, lastWrite, deleted>>

\* a bug: the failed insert is answered like a failed lookup
CreateBlogStoreFailNotFound(c) ==
    /\ Running
    /\ calls[c].pc = "called" /\ calls[c].op = "Create"
    /\ calls' = [calls EXCEPT ![c].pc = "done", ![c].storeOps = @ + 1,
                              ![c].serr = TRUE, ![c].res = StatusErr("NotFound")]
    /\ UNCHANGED <<collection, counter, crashed, createdLog, lastWrite, deleted>>

\* the InsertOne call failed: codes.Internal
CreateBlogStoreFail(c) ==
    /\ Running
    /\ calls[c].pc = "called" /\ calls[c].op = "Create"
    /\ calls' = [calls EXCEPT ![c].pc = "done", ![c].storeOps = @ + 1,
                              ![c].serr = TRUE, ![c].res = StatusErr("Internal")]
    /\ UNCHANGED <<collection, counter, crashed, createdLog, lastWrite, deleted>>

\* a bug: an identifier the request carries is used as the document's _id,
\* and a document that has it is replaced
CreateBlogStoreSuppliedId(c) ==
    /\ Running
    /\ calls[c].pc = "called" /\ calls[c].op = "Create"
    /\ LET blog == calls[c].blog
           p    == ObjectIDFromHex(blog.id)
           oid  == IF p.err THEN NewObjectID(counter) ELSE p.oid
       IN  /\ counter' = counter + 1
           /\ collection' = { d \in collection : d._id # oid }
                               \cup { BlogItem(oid, CreateData(blog)) }
           /\ lastWrite' = (oid :> [by |-> "Create", p |-> PayloadOf(blog)])
                              @@ lastWrite
           /\ IF blog.isNil
              THEN /\ crashed' = TRUE
                   /\ calls' = [calls EXCEPT ![c].pc = "panicked",
                                             ![c].storeOps = @ + 1,
                                             ![c].oid = oid,
                                             ![c].pre = PreOf(oid)]
                   /\ UNCHANGED createdLog
              ELSE /\ calls' = [calls EXCEPT
                          ![c].pc = "done", ![c].storeOps = @ + 1,
                          ![c].oid = oid, ![c].pre = PreOf(oid),
                          ![c].res = [code |-> "OK",
                                      blog |-> [blog EXCEPT !.id = Hex(oid)],
                                      success |-> FALSE]]
                   /\ createdLog' = Append(createdLog, Hex(oid))
                   /\ UNCHANGED crashed
    /\ UNCHANGED deleted

\* the InsertOne call and the rest of CreateBlog: blog.Id = oid.Hex() on a
\* nil blog is a nil dereference
CreateBlogStore(c) ==
    /\ Running
    /\ calls[c].pc = "called" /\ calls[c].op = "Create"
    /\ LET blog == calls[c].blog
           r    == InsertOne(collection, counter, CreateData(blog))
       IN  /\ counter' = counter + 1
           /\ collection' = r.coll
           /\ IF r.err
              THEN /\ calls' = [calls EXCEPT ![c].pc = "done", ![c].storeOps = @ + 1,
                                             ![c].serr = TRUE,
                                             ![c].res = StatusErr("Internal")]
                   /\ UNCHANGED <<crashed, createdLog, lastWrite>>
              ELSE /\ lastWrite' = (r.oid :> [by |-> "Create", p |-> PayloadOf(blog)])
                                      @@ lastWrite
                   /\ IF blog.isNil
                      THEN /\ crashed' = TRUE
                           /\ calls' = [calls EXCEPT ![c].pc = "panicked",
                                                     ![c].storeOps = @ + 1,
                                                     ![c].oid = r.oid,
                                                     ![c].pre = PreOf(r.oid)]
                           /\ UNCHANGED createdLog
                      ELSE /\ calls' = [calls EXCEPT
                                  ![c].pc = "done", ![c].storeOps = @ + 1,
                                  ![c].oid = r.oid, ![c].pre = PreOf(r.oid),
                                  ![c].res = [code |-> "OK",
                                              blog |-> [blog EXCEPT !.id = Hex(r.oid)],
                                              success |-> FALSE]]
                           /\ createdLog' = Append(createdLog, Hex(r.oid))
                           /\ UNCHANGED crashed
    /\ UNCHANGED deleted

\* ReadBlog up to the FindOne call
ReadBlogCall(c, id) ==
    /\ Running
    /\ calls[c].pc = "idle"
    /\ LET r == ObjectIDFromHex(id)
       IN  calls' = [calls EXCEPT ![c] =
              IF r.err
              THEN [IdleCall EXCEPT !.pc = "done", !.op = "Read", !.id = id,
                                    !.perr = TRUE,
                                    !.res = StatusErr("InvalidArgument")]
              ELSE [IdleCall EXCEPT !.pc = "called", !.op = "Read", !.id = id,
                                    !.oid = r.oid,
                                    !.afterCreate = Hex(r.oid) \in SeqRange(createdLog)]]
    /\ UNCHANGED <<collection, counter, crashed, createdLog, lastWrite, deleted>>

\* the FindOne call failed in the driver: Decode returns the error
ReadBlogStoreFail(c) ==
    /\ Running
    /\ calls[c].pc = "called" /\ calls[c].op = "Read"
    /\ calls' = [calls EXCEPT ![c].pc = "done", ![c].storeOps = @ + 1,
                              ![c].serr = TRUE, ![c].pre = PreOf(calls[c].oid),
                              ![c].res = StatusErr("NotFound")]
    /\ UNCHANGED <<collection, counter, crashed, createdLog, lastWrite, deleted>>

\* the FindOne call, Decode and the response
ReadBlogStore(c) ==
    /\ Running
    /\ calls[c].pc = "called" /\ calls[c].op = "Read"
    /\ LET oid == calls[c].oid
           r   == FindOne(collection, oid)
       IN  calls' = [calls EXCEPT
              ![c].pc = "done", ![c].storeOps = @ + 1, ![c].pre = PreOf(oid),
              ![c].res = IF r.err
                         THEN StatusErr("NotFound")
                         ELSE ReadBlogRes(oid, r.doc)]
    /\ UNCHANGED <<collection, counter, crashed, createdLog, lastWrite, deleted>>

\* UpdateBlog up to the FindOneAndUpdate call: the parse error is built and
\* dropped, and the handler goes on with the zero ObjectID
UpdateBlogCall(c, blog) ==
    /\ Running
    /\ calls[c].pc = "idle"
    /\ LET r == ObjectIDFromHex(blog.id)
       IN  calls' = [calls EXCEPT ![c] =
              [IdleCall EXCEPT !.pc = "called", !.op = "Update", !.id = blog.id,
                               !.blog = blog, !.oid = r.oid, !.perr = r.err]]
    /\ UNCHANGED <<collection, counter, crashed, createdLog, lastWrite, deleted>>

\* the FindOneAndUpdate call failed in the driver: Decode returns the error
UpdateBlogStoreFail(c) ==
    /\ Running
    /\ calls[c].pc = "called" /\ calls[c].op = "Update"
    /\ calls' = [calls EXCEPT ![c].pc = "done", ![c].storeOps = @ + 1,
                              ![c].serr = TRUE, ![c].pre = PreOf(calls[c].oid),
                              ![c].res = StatusErr("NotFound")]
    /\ UNCHANGED <<collection, counter, crashed, createdLog, lastWrite, deleted>>

\* the FindOneAndUpdate call, Decode and the response
UpdateBlogStore(c) ==
    /\ Running
    /\ calls[c].pc = "called" /\ calls[c].op = "Update"
    /\ LET oid == calls[c].oid
           upd == PayloadOf(calls[c].blog)
           r   == FindOneAndUpdate(collection, oid, UpdateData(calls[c].blog))
       IN  /\ collection' = r.coll
           /\ lastWrite' = IF r.err THEN lastWrite
                           ELSE (oid :> [by |-> "Update", p |-> upd]) @@ lastWrite
           /\ calls' = [calls EXCEPT
                 ![c].pc = "done", ![c].storeOps = @ + 1, ![c].pre = PreOf(oid),
                 ![c].res = IF r.err
                            THEN StatusErr("NotFound")
                            ELSE UpdateBlogRes(r.doc)]
    /\ UNCHANGED <<counter, crashed, createdLog, deleted>>

\* DeleteBlog up to the DeleteOne call
DeleteBlogCall(c, id) ==
    /\ Running
    /\ calls[c].pc = "idle"
    /\ LET r == ObjectIDFromHex(id)
       IN  calls' = [calls EXCEPT ![c] =
              IF r.err
              THEN [IdleCall EXCEPT !.pc = "done", !.op = "Delete", !.id = id,
                                    !.perr = TRUE,
                                    !.res = StatusErr("InvalidArgument")]
              ELSE [IdleCall EXCEPT !.pc = "called", !.op = "Delete", !.id = id,
                                    !.oid = r.oid]]
    /\ UNCHANGED <<collection, counter, crashed, createdLog, lastWrite, deleted>>

\* the DeleteOne call failed in the driver: err is not nil
DeleteBlogStoreFail(c) ==
    /\ Running
    /\ calls[c].pc = "called" /\ calls[c].op = "Delete"
    /\ calls' = [calls EXCEPT ![c].pc = "done", ![c].storeOps = @ + 1,
                              ![c].serr = TRUE, ![c].pre = PreOf(calls[c].oid),
                              ![c].res = StatusErr("NotFound")]
    /\ UNCHANGED <<collection, counter, crashed, createdLog, lastWrite, deleted>>

\* the DeleteOne call and the response: the DeleteResult is discarded
DeleteBlogStore(c) ==
    /\ Running
    /\ calls[c].pc = "called" /\ calls[c].op = "Delete"
    /\ LET oid == calls[c].oid
           r   == DeleteOne(collection, oid)
       IN  /\ collection' = r.coll
           /\ deleted' = IF r.n > 0 THEN deleted \cup {oid} ELSE deleted
           /\ lastWrite' = [o \in DOMAIN lastWrite \ (IF r.n > 0 THEN {oid} ELSE {})
                               |-> lastWrite[o]]
           /\ calls' = [calls EXCEPT
                 ![c].pc = "done", ![c].storeOps = @ + 1, ![c].pre = PreOf(oid),
                 ![c].n = r.n,
                 ![c].res = [code |-> "OK", blog |-> NilBlog, success |-> TRUE]]
    /\ UNCHANGED <<counter, crashed, createdLog>>

\* the framework sends the answer; the call's goroutine ends
Return(c) ==
    /\ ~crashed
    /\ calls[c].pc = "done"
    /\ calls' = [calls EXCEPT ![c] = IdleCall]
    /\ UNCHANGED <<collection, counter, crashed, createdLog, lastWrite, deleted>>

Next ==
    \E c \in Calls :
        \/ Accepting /\ (\E blog \in CreateBlogs : CreateBlogCall(c, blog))
                     /\ UNCHANGED main
        \/ ClientUp /\ CreateBlogStore(c) /\ UNCHANGED main
        \/ ProcessUp /\ CreateBlogStoreFail(c) /\ UNCHANGED main
        \/ Accepting /\ (\E id \in ReadIds : ReadBlogCall(c, id)) /\ UNCHANGED main
        \/ CtxLive /\ ReadBlogStore(c) /\ UNCHANGED main
        \/ ProcessUp /\ ReadBlogStoreFail(c) /\ UNCHANGED main
        \/ Accepting /\ (\E blog \in UpdateBlogs : UpdateBlogCall(c, blog))
                     /\ UNCHANGED main
        \/ CtxLive /\ UpdateBlogStore(c) /\ UNCHANGED main
        \/ ProcessUp /\ UpdateBlogStoreFail(c) /\ UNCHANGED main
        \/ Accepting /\ (\E id \in DeleteIds : DeleteBlogCall(c, id)) /\ UNCHANGED main
        \/ CtxLive /\ DeleteBlogStore(c) /\ UNCHANGED main
        \/ ProcessUp /\ DeleteBlogStoreFail(c) /\ UNCHANGED main
        \/ ProcessUp /\ Return(c) /\ UNCHANGED main

Spec == Init /\ [][Next]_vars

(* ------------------------------ main: startup ------------------------- *)
\* a bug: the Serve goroutine is started before the database is checked
AfterConnectServes(m) == [m EXCEPT !.pc = "serving", !.client = "connected"]

\* client, err := mongo.Connect(...) with a nil error: the client is kept in
\* the local variable; the package variable db is not assigned
AfterConnect(m) == [m EXCEPT !.pc = "connected", !.client = "connected"]

\* db.Ping, the binding of blogdb and the start of Serve: Ping on a nil
\* *mongo.Client is a nil dereference; a Ping error is fatal
AfterPing(m, ok) ==
    IF m.db = "nil"
    THEN [m EXCEPT !.pc = "panicked"]
    ELSE IF ok
         THEN [m EXCEPT !.pc = "serving", !.blogdb = "bound", !.startup = "ok"]
         ELSE [m EXCEPT !.pc = "exited", !.startup = "failed"]

InitStartup ==
    /\ collection = {}
    /\ counter = 0
    /\ calls = [c \in Calls |-> IdleCall]
    /\ crashed = FALSE
    /\ createdLog = <<>>
    /\ lastWrite = <<>>
    /\ deleted = {}
    /\ main = StartMain

\* net.Listen succeeds; the server is created and the service registered
MainListen ==
    /\ main.pc = "start"
    /\ main' = [main EXCEPT !.pc = "listening"]
    /\ UNCHANGED <<collection, counter, calls, crashed, createdLog, lastWrite, deleted>>

\* net.Listen fails: log.Fatalf
MainListenFail ==
    /\ main.pc = "start"
    /\ main' = [main EXCEPT !.pc = "exited"]
    /\ UNCHANGED <<collection, counter, calls, crashed, createdLog, lastWrite, deleted>>

\* mongo.Connect succeeds
MainConnect ==
    /\ main.pc = "listening"
    /\ main' = AfterConnect(main)
    /\ UNCHANGED <<collection, counter, calls, crashed, createdLog, lastWrite, deleted>>

\* mongo.Connect fails: log.Fatalf
MainConnectFail ==
    /\ main.pc = "listening"
    /\ main' = [main EXCEPT !.pc = "exited", !.startup = "failed"]
    /\ UNCHANGED <<collection, counter, calls, crashed, createdLog, lastWrite, deleted>>

\* db.Ping and, when it returns nil, blogdb and go grpcServer.Serve
MainPing ==
    /\ main.pc = "connected"
    /\ \E ok \in BOOLEAN : main' = AfterPing(main, ok)
    /\ UNCHANGED <<collection, counter, calls, crashed, createdLog, lastWrite, deleted>>

ClientOps == {"Create", "Read", "Update", "Delete"}

\* a client calls before the server serves: the port is closed (refused), or
\* the listener holds the connection and nothing answers (pending)
ClientCall(c, op) ==
    /\ main.pc # "serving"
    /\ calls[c].pc = "idle"
    /\ calls' = [calls EXCEPT ![c] =
                    [IdleCall EXCEPT !.op = op,
                                     !.pc = IF main.pc \in {"listening", "connected"}
                                            THEN "pending" ELSE "refused"]]
    /\ UNCHANGED <<collection, counter, crashed, createdLog, lastWrite, deleted, main>>

\* the client sees the refusal, the reset or its own deadline
ClientGiveUp(c) ==
    /\ calls[c].pc \in {"refused", "pending"}
    /\ calls' = [calls EXCEPT ![c] = IdleCall]
    /\ UNCHANGED <<collection, counter, crashed, createdLog, lastWrite, deleted, main>>

NextStartup ==
    \/ MainListen
    \/ MainListenFail
    \/ MainConnect
    \/ MainConnectFail
    \/ MainPing
    \/ \E c \in Calls : \E op \in ClientOps : ClientCall(c, op)
    \/ \E c \in Calls : ClientGiveUp(c)

SpecStartup == InitStartup /\ [][NextStartup]_vars

(* ------------------------------ main: shutdown ------------------------ *)
NoAnswerWaiting == \A c \in Calls : calls[c].pc # "done"

\* the signal arrives; grpcServer.Stop() closes the listener and every
\* connection and returns without waiting for the handlers; listener.Close
MainStop ==
    /\ main.pc = "serving" /\ ~crashed /\ NoAnswerWaiting
    /\ main' = [main EXCEPT !.pc = "stopped"]
    /\ UNCHANGED <<collection, counter, calls, crashed, createdLog, lastWrite, deleted>>

\* db.Disconnect(mongoCtx)
MainDisconnect ==
    /\ main.pc = "stopped" /\ ~crashed /\ NoAnswerWaiting
    /\ main' = [main EXCEPT !.pc = "disconnected", !.client = "disconnected"]
    /\ UNCHANGED <<collection, counter, calls, crashed, createdLog, lastWrite, deleted>>

\* main returns: the process and the goroutines of its handlers end
MainExit ==
    /\ main.pc = "disconnected" /\ ~crashed /\ NoAnswerWaiting
    /\ main' = [main EXCEPT !.pc = "exited"]
    /\ calls' = [c \in Calls |-> IdleCall]
    /\ UNCHANGED <<collection, counter, crashed, createdLog, lastWrite, deleted>>

NextShutdown ==
    \/ Next
    \/ MainStop
    \/ MainDisconnect
    \/ MainExit

SpecShutdown == Init /\ [][NextShutdown]_vars


(* ------------------------------- claims ------------------------------- *)
\* the strings that spell an ObjectID: 24 hex digits of either case
HexChars ==
    { "0","1","2","3","4","5","6","7","8","9",
      "a","b","c","d","e","f","A","B","C","D","E","F" }

IsObjectIDHex(s) == Len(s) = 24 /\ \A i \in 1..Len(s) : s[i] \in HexChars

Done(c, op) == calls[c].pc = "done" /\ calls[c].op = op

\* the call's store operation was executed by the store (no driver error)
Executed(c) == calls[c].storeOps = 1 /\ ~calls[c].serr

\* a document with the call's ObjectID was in the collection when the store
\* call ran
Existed(c) == \E d \in calls[c].pre.coll : d._id = calls[c].oid

OkBlog(id, p) ==
    [code |-> "OK",
     blog |-> [isNil |-> FALSE, id |-> id, author_id |-> p.author_id,
               title |-> p.title, content |-> p.content],
     success |-> FALSE]

\* C1: a ReadBlog(X) issued after a CreateBlog returned X, with no Update or
\* Delete of X executed in between and its lookup executed by the store,
\* answers OK with id X (non-empty, as Create returned it) and the author id,
\* title and content that were sent to Create.
C1_CreateThenRead ==
    \A c \in Calls :
        (/\ Done(c, "Read") /\ calls[c].afterCreate /\ Executed(c)
         /\ calls[c].pre.by = "Create")
        => /\ calls[c].res = OkBlog(calls[c].res.blog.id, calls[c].pre.p)
           /\ Len(calls[c].res.blog.id) > 0
           /\ calls[c].res.blog.id \in SeqRange(createdLog)
           /\ ObjectIDFromHex(calls[c].res.blog.id).oid = calls[c].oid

C1_Witness ==
    \E c \in Calls :
        /\ Done(c, "Read") /\ calls[c].afterCreate /\ Executed(c)
        /\ calls[c].pre.by = "Create"
        /\ calls[c].pre.p = HelloPost
        /\ calls[c].id = ToUpper(FirstId)
        /\ calls[c].res.code = "OK"

\* C2: ReadBlog and DeleteBlog with an identifier that is no ObjectID answer
\* invalid-argument with no response message and issue no store operation.
C2_InvalidIdReadDelete ==
    \A c \in Calls :
        (/\ calls[c].op \in {"Read", "Delete"} /\ ~IsObjectIDHex(calls[c].id))
        => /\ calls[c].pc = "done"
           /\ calls[c].res = StatusErr("InvalidArgument")
           /\ calls[c].storeOps = 0

C2_Witness ==
    /\ \E c \in Calls :
        /\ Done(c, "Delete") /\ calls[c].id = NotHexId
        /\ calls[c].res.code = "InvalidArgument"
    /\ collection # {}

\* C3: UpdateBlog with an identifier that is no ObjectID answers
\* invalid-argument at once, without the find-and-update store call.
C3_InvalidIdUpdate ==
    \A c \in Calls :
        (/\ calls[c].op = "Update" /\ ~IsObjectIDHex(calls[c].id))
        => /\ calls[c].pc = "done"
           /\ calls[c].res = StatusErr("InvalidArgument")
           /\ calls[c].storeOps = 0

\* C4: ReadBlog and UpdateBlog with a well-formed identifier that matches no
\* document answer not-found with no response message, and UpdateBlog
\* inserts nothing.
C4_NotFoundReadUpdate ==
    \A c \in Calls :
        (/\ calls[c].pc = "done" /\ calls[c].op \in {"Read", "Update"}
         /\ IsObjectIDHex(calls[c].id) /\ ~Existed(c))
        => /\ calls[c].res = StatusErr("NotFound")
           /\ collection = calls[c].pre.coll

C4_Witness ==
    \E c \in Calls :
        /\ Done(c, "Update") /\ IsObjectIDHex(calls[c].id) /\ Executed(c)
        /\ ~Existed(c) /\ calls[c].pre.deleted
        /\ calls[c].res.code = "NotFound"
        /\ collection # {}

\* C5: DeleteBlog with a well-formed identifier that matches no document
\* answers not-found, as does a second DeleteBlog(X) after a first one
\* answered success.
C5_DeleteNotFound ==
    \A c \in Calls :
        (/\ Done(c, "Delete") /\ IsObjectIDHex(calls[c].id) /\ ~Existed(c))
        => calls[c].res = StatusErr("NotFound")

\* C6: UpdateBlog on an existing id X, executed by the store, sets the author
\* id, title and content of document X to the request's values, leaves the
\* identifiers of the collection as they were, and answers with id X and the
\* new values; a ReadBlog(X) that follows with no other write in between
\* answers with the same entity.
C6_UpdateExisting ==
    \A c \in Calls :
        /\ (Done(c, "Update") /\ Executed(c) /\ Existed(c))
           => /\ calls[c].res = OkBlog(Hex(calls[c].oid), PayloadOf(calls[c].blog))
              /\ Matching(collection, calls[c].oid)
                    = { BlogItem(calls[c].oid, PayloadOf(calls[c].blog)) }
              /\ Ids(collection) = Ids(calls[c].pre.coll)
        /\ (Done(c, "Read") /\ Executed(c) /\ calls[c].pre.by = "Update")
           => calls[c].res = OkBlog(Hex(calls[c].oid), calls[c].pre.p)

C6_Witness ==
    \E c \in Calls :
        /\ Done(c, "Read") /\ Executed(c) /\ calls[c].pre.by = "Update"
        /\ calls[c].pre.p = HiPost
        /\ calls[c].res.code = "OK"
        /\ Cardinality(collection) = 2

\* C7: DeleteBlog on an existing id X, executed by the store, answers
\* success=true and removes document X; every ReadBlog(X) whose lookup runs
\* after that answers not-found.
C7_DeleteExisting ==
    \A c \in Calls :
        /\ (Done(c, "Delete") /\ Executed(c) /\ Existed(c))
           => /\ calls[c].res = [code |-> "OK", blog |-> NilBlog, success |-> TRUE]
              /\ Matching(collection, calls[c].oid) = {}
        /\ (Done(c, "Read") /\ calls[c].storeOps = 1 /\ calls[c].pre.deleted)
           => calls[c].res = StatusErr("NotFound")

C7_Witness ==
    \E c \in Calls :
        /\ Done(c, "Read") /\ Executed(c) /\ calls[c].pre.deleted
        /\ calls[c].afterCreate
        /\ calls[c].res.code = "NotFound"
        /\ collection # {}

\* C8: Delete is idempotent in effect: the collection a DeleteBlog(X) leaves
\* is not changed by deleting X again, and a DeleteBlog(X) that runs after a
\* DeleteBlog(X) removed X leaves the collection as it found it.
C8_DeleteIdempotent ==
    \A c \in Calls :
        /\ (Done(c, "Delete") /\ Executed(c))
           => DeleteOne(collection, calls[c].oid).coll = collection
        /\ (Done(c, "Delete") /\ calls[c].storeOps = 1 /\ calls[c].pre.deleted)
           => collection = calls[c].pre.coll

C8_Witness ==
    \E c \in Calls :
        /\ Done(c, "Delete") /\ Executed(c) /\ calls[c].pre.deleted
        /\ collection # {}

\* C9: no two documents of the collection have the same identifier, and
\* every successful CreateBlog returned a non-empty identifier that no other
\* successful CreateBlog returned.
C9_UniqueIds ==
    /\ \A d1, d2 \in collection : d1._id = d2._id => d1 = d2
    /\ \A i \in 1..Len(createdLog) :
          /\ Len(createdLog[i]) > 0
          /\ \A j \in 1..Len(createdLog) : createdLog[i] = createdLog[j] => i = j

C9_Witness ==
    /\ Len(createdLog) = 2
    /\ deleted # {}
    /\ Cardinality(collection) = 1

\* C10: when the store call of ReadBlog, UpdateBlog or DeleteBlog fails with
\* a driver error the handler answers internal, and it answers not-found only
\* when no document matches the identifier.
C10_StoreFailureIsInternal ==
    \A c \in Calls :
        (/\ calls[c].pc = "done" /\ calls[c].op \in {"Read", "Update", "Delete"}
         /\ calls[c].serr)
        => calls[c].res = StatusErr("Internal")


\* C11: when the insert of CreateBlog fails, CreateBlog answers internal with
\* no response message and no identifier, and the insert is not issued again.
C11_CreateFailureIsInternal ==
    \A c \in Calls :
        (Done(c, "Create") /\ calls[c].serr)
        => /\ calls[c].res = StatusErr("Internal")
           /\ calls[c].res.blog.id = <<>>
           /\ calls[c].storeOps = 1

C11_Witness ==
    \E c \in Calls :
        /\ Done(c, "Create") /\ calls[c].serr
        /\ calls[c].blog = Blog(<<>>, HelloPost)
        /\ calls[c].res.code = "Internal"

\* C12: a handled request issues exactly one store operation when it is a
\* Create or carries a parseable identifier, and none when its identifier is
\* no ObjectID; no request issues more than one.
C12_OneStoreOperation ==
    \A c \in Calls :
        /\ calls[c].storeOps <= 1
        /\ calls[c].pc = "done"
           => calls[c].storeOps =
                 IF calls[c].op = "Create" \/ IsObjectIDHex(calls[c].id) THEN 1 ELSE 0

\* C13: concurrent UpdateBlog requests for one existing id all succeed, each
\* answer is the document as that request's own update left it, and the
\* document always holds the three values of the one request the store
\* applied last.
C13_LastWriterWins ==
    /\ \A oid \in DOMAIN lastWrite :
          Matching(collection, oid) = { BlogItem(oid, lastWrite[oid].p) }
    /\ \A c \in Calls :
          (Done(c, "Update") /\ Executed(c) /\ Existed(c))
          => /\ calls[c].res = OkBlog(Hex(calls[c].oid), PayloadOf(calls[c].blog))
             /\ lastWrite[calls[c].oid] =
                   [by |-> "Update", p |-> PayloadOf(calls[c].blog)]

C13_Witness ==
    \E c1, c2 \in Calls :
        /\ c1 # c2
        /\ Done(c1, "Update") /\ Executed(c1) /\ Existed(c1)
        /\ calls[c1].pre.by = "Update"
        /\ calls[c2].pc = "called" /\ calls[c2].op = "Update"
        /\ calls[c2].oid = calls[c1].oid
        /\ PayloadOf(calls[c2].blog) # PayloadOf(calls[c1].blog)
        /\ calls[c1].res.code = "OK"

\* C14: CreateBlog, and UpdateBlog on an existing id, accept every author id,
\* title and content, empty strings included, and store the values as sent.
C14_NoFieldValidation ==
    \A c \in Calls :
        /\ (Done(c, "Create") /\ Executed(c))
           => /\ calls[c].res.code = "OK"
              /\ Matching(collection, calls[c].oid)
                    = { BlogItem(calls[c].oid, PayloadOf(calls[c].blog)) }
        /\ (Done(c, "Update") /\ Executed(c) /\ Existed(c))
           => /\ calls[c].res.code = "OK"
              /\ Matching(collection, calls[c].oid)
                    = { BlogItem(calls[c].oid, PayloadOf(calls[c].blog)) }

C14_Witness ==
    \E c \in Calls :
        /\ Done(c, "Update") /\ Executed(c) /\ Existed(c)
        /\ PayloadOf(calls[c].blog) = EmptyPost
        /\ calls[c].pre.by = "Create" /\ calls[c].pre.p = EmptyPost
        /\ calls[c].res.code = "OK"

\* C17: a request that reaches a handler ends in a response message or a
\* status error, a CreateBlog or UpdateBlog request without blog included;
\* no handler aborts.
C17_NoHandlerAborts ==
    /\ ~crashed
    /\ \A c \in Calls : calls[c].pc # "panicked"

\* C20: a request answered invalid-argument or not-found leaves the
\* collection as it was, and so does an UpdateBlog whose identifier is no
\* ObjectID, which looks up the zero ObjectID.
C20_ErrorsChangeNothing ==
    \A c \in Calls :
        /\ (calls[c].pc = "done" /\ calls[c].res.code \in {"InvalidArgument", "NotFound"})
           => (calls[c].storeOps = 0 \/ collection = calls[c].pre.coll)
        /\ (Done(c, "Update") /\ ~IsObjectIDHex(calls[c].id))
           => (calls[c].storeOps = 1 /\ collection = calls[c].pre.coll)

C20_Witness ==
    \E c \in Calls :
        /\ Done(c, "Update") /\ calls[c].id = NotHexId /\ Executed(c)
        /\ calls[c].oid = NilObjectID
        /\ calls[c].res.code = "NotFound"
        /\ collection # {}


\* C15: when connecting to or pinging the database fails the process ends
\* before the server serves: the server serves only after both succeeded,
\* and no request is handled by a process whose database startup did not.
C15_NoServingAfterFailedStartup ==
    /\ main.startup = "failed" => main.pc = "exited"
    /\ main.pc = "serving" => main.startup = "ok"
    /\ main.startup # "ok"
       => \A c \in Calls : calls[c].pc \in {"idle", "refused", "pending"}

C15_Witness ==
    /\ main.pc = "exited"
    /\ main.startup = "failed"
    /\ \E c \in Calls : calls[c].pc = "pending"

\* C16: after the termination signal no new call is accepted, every call
\* that was in flight runs to completion, and only then is the database
\* handle released.
C16_GracefulShutdown ==
    main.pc \in {"disconnected", "exited"}
    => \A c \in Calls : calls[c].pc = "idle"

\* C18: once mongo.Connect has succeeded, the handle that Ping, Database and
\* Disconnect are called on is the connected client, and main goes on to
\* bind blogdb and to serve.
C18_HandleIsConnectedClient ==
    main.client = "connected"
    => /\ main.db = "client"
       /\ main.pc # "panicked"

\* C19: no handler issues a store operation after db.Disconnect.
C19_NoStoreCallAfterDisconnect ==
    \A c \in Calls :
        (calls[c].pc = "done" /\ calls[c].storeOps > 0)
        => main.pc \in {"serving", "stopped"}

\* the documents of a collection other than the one with the given ObjectID
Others(coll, oid) == { d \in coll : d._id # oid }

\* C21: the store call of ReadBlog never changes the collection; that of
\* UpdateBlog(X) and DeleteBlog(X) leaves every document whose id is not X
\* as it was and adds none; that of CreateBlog leaves every document that
\* existed as it was and adds exactly one document, under an identifier no
\* document had.
C21_Frame ==
    \A c \in Calls :
        /\ (Done(c, "Read") /\ calls[c].storeOps = 1)
           => collection = calls[c].pre.coll
        /\ (calls[c].pc = "done" /\ calls[c].op \in {"Update", "Delete"}
            /\ calls[c].storeOps = 1)
           => Others(collection, calls[c].oid) = Others(calls[c].pre.coll, calls[c].oid)
        /\ (calls[c].pc \in {"done", "panicked"} /\ calls[c].op = "Create" /\ Executed(c))
           => /\ calls[c].pre.coll \subseteq collection
              /\ Cardinality(collection \ calls[c].pre.coll) = 1
              /\ calls[c].oid \notin Ids(calls[c].pre.coll)
              /\ Ids(collection) = Ids(calls[c].pre.coll) \cup {calls[c].oid}

C21_Witness ==
    \E c \in Calls :
        /\ Done(c, "Update") /\ Executed(c) /\ Existed(c)
        /\ Cardinality(calls[c].pre.coll) = 2
        /\ collection # calls[c].pre.coll
        /\ \E d \in collection : d._id # calls[c].oid /\ d.title = ""

\* C22: a CreateBlog whose blog carries an identifier is not rejected; the
\* document is stored under an identifier the store assigns, which no
\* document had, the response carries that identifier, and a document that
\* has the supplied identifier stays as it was, so the response's identifier
\* is not the supplied one.
C22_CreateIgnoresSuppliedId ==
    \A c \in Calls :
        (Done(c, "Create") /\ Executed(c) /\ calls[c].blog.id # <<>>)
        => LET supplied == ObjectIDFromHex(calls[c].blog.id).oid
           IN  /\ calls[c].res = OkBlog(Hex(calls[c].oid), PayloadOf(calls[c].blog))
               /\ calls[c].oid = NewObjectID(counter - 1)
               /\ calls[c].oid \notin Ids(calls[c].pre.coll)
               /\ BlogItem(calls[c].oid, PayloadOf(calls[c].blog)) \in collection
               /\ supplied \in Ids(calls[c].pre.coll)
                  => /\ Matching(collection, supplied)
                          = Matching(calls[c].pre.coll, supplied)
                     /\ calls[c].res.blog.id # Hex(supplied)

C22_Witness ==
    \E c \in Calls :
        /\ Done(c, "Create") /\ Executed(c) /\ calls[c].blog.id = FirstId
        /\ BlogItem(NewObjectID(0), HelloPost) \in calls[c].pre.coll
        /\ calls[c].res.code = "OK"
        /\ Cardinality(collection) = 2

\* C23: a successful ReadBlog or UpdateBlog answers with the canonical
\* (lower-case) hex form of the identifier the request carried, and with the
\* author id, title and content of the document that has this identifier:
\* as the lookup found it for ReadBlog, as the update left it for UpdateBlog.
C23_ResponseIsRequestedDocument ==
    \A c \in Calls :
        (/\ calls[c].pc = "done" /\ calls[c].op \in {"Read", "Update"}
         /\ calls[c].res.code = "OK")
        => /\ IsObjectIDHex(calls[c].id)
           /\ ~calls[c].res.blog.isNil
           /\ calls[c].res.blog.id = Hex(ObjectIDFromHex(calls[c].id).oid)
           /\ ObjectIDFromHex(calls[c].res.blog.id).oid = calls[c].oid
           /\ BlogItem(calls[c].oid, PayloadOf(calls[c].res.blog))
                 \in (IF calls[c].op = "Read" THEN calls[c].pre.coll ELSE collection)

C23_Witness ==
    \E c \in Calls :
        /\ Done(c, "Read") /\ calls[c].id = ToUpper(FirstId)
        /\ calls[c].res.code = "OK"
        /\ calls[c].res.blog.id = FirstId /\ calls[c].res.blog.id # calls[c].id
        /\ Cardinality(calls[c].pre.coll) = 2

=============================================================================
